---- MODULE Spec2Model ----
(***************************************************************************)
(* Model of the Gemini adapter of harmony-assistant                        *)
(* (app/services/gemini.server.js): the history translator, the tool       *)
(* schema normalizer and the streamConversation coroutine that drives one  *)
(* provider streaming call and re-emits it through onText / onToolUse /    *)
(* onMessage.                                                              *)
(*                                                                         *)
(* JavaScript values are modelled as follows.                               *)
(*   string            a TLA+ string; "" is the only falsy string           *)
(*   undefined / null   the records Undefined / Null                        *)
(*   array             a sequence                                           *)
(*   object            a record; an absent key is absent from DOMAIN        *)
(*   JSON-schema tree  a tagged tree (Obj / Arr / Str) so that the          *)
(*                     recursion of cleanParameters can be evaluated        *)
(***************************************************************************)
EXTENDS Integers, Sequences, FiniteSets, TLC

(***************************************************************************)
(* Bounds of the model.                                                    *)
(***************************************************************************)
\* Largest number of chunks the provider stream yields in one run.
MaxChunks == 3
\* Largest number of turns of a history given to the translator.
MaxTurns == 3

(***************************************************************************)
(* JavaScript values.  A value whose type the code does not fix is a       *)
(* record tagged by js; arrays hold their elements in items, objects hold  *)
(* their own keys, in insertion order, in kv.                              *)
(***************************************************************************)
Undefined == [js |-> "undefined"]
Null == [js |-> "null"]
S(s) == [js |-> "string", s |-> s]
Arr(items) == [js |-> "array", items |-> items]
Obj(kv) == [js |-> "object", kv |-> kv]
KV(k, v) == [k |-> k, v |-> v]

IsArray(v) == v.js = "array"
IsString(v) == v.js = "string"
\* JavaScript truthiness of a tagged value.
Truthy(v) == ~(v.js \in {"undefined", "null"}) /\ ~(v.js = "string" /\ v.s = "")

\* obj[key] of a record modelling an object: Undefined when the key is absent.
HasKey(obj, key) == key \in DOMAIN obj

\* obj.key of a tagged object: the value of the last entry of that key.
RECURSIVE Lookup(_, _)
Lookup(kv, key) ==
  IF kv = <<>> THEN Undefined
  ELSE IF kv[Len(kv)].k = key THEN kv[Len(kv)].v
  ELSE Lookup(SubSeq(kv, 1, Len(kv) - 1), key)

\* A join that leaves the separator out.
RECURSIVE JoinNoSeparator(_, _)
JoinNoSeparator(strs, sep) ==
  IF strs = <<>> THEN "" ELSE strs[1] \o JoinNoSeparator(Tail(strs), sep)

\* Array.prototype.join over strings.
RECURSIVE Join(_, _)
Join(strs, sep) ==
  IF strs = <<>> THEN ""
  ELSE IF Len(strs) = 1 THEN strs[1]
  ELSE strs[1] \o sep \o Join(Tail(strs), sep)

\* A mapping whose default passes the provider's reason through.
mapFinishReasonPassThrough(reason) ==
  IF ~IsString(reason) THEN "undefined"
  ELSE CASE reason.s = "STOP" -> "end_turn"
         [] reason.s = "TOOL_USE" -> "tool_use"
         [] reason.s = "MAX_TOKENS" -> "max_tokens"
         [] OTHER -> reason.s

(***************************************************************************)
(* mapFinishReason (gemini.server.js 200-207).                             *)
(***************************************************************************)
mapFinishReason(reason) ==
  IF ~IsString(reason) THEN "end_turn"
  ELSE CASE reason.s = "STOP" -> "end_turn"
         [] reason.s = "TOOL_USE" -> "tool_use"
         [] reason.s = "MAX_TOKENS" -> "max_tokens"
         [] OTHER -> "end_turn"

(***************************************************************************)
(* cleanParameters (gemini.server.js 220-232).                             *)
(***************************************************************************)
\* The format values the target accepts on a string schema (line 225).
KeptFormats == {"enum", "date-time"}

\* A test that does not look at the type of the node.
DropsFormatAnyType(params, key, value) ==
  key = "format" /\ ~(IsString(value) /\ value.s \in KeptFormats)

\* The test of line 225: the key is dropped from the copy.
DropsFormat(params, key, value) ==
  /\ key = "format"
  /\ params.js = "object"
  /\ LET type == Lookup(params.kv, "type") IN IsString(type) /\ type.s = "string"
  /\ ~(IsString(value) /\ value.s \in KeptFormats)

\* A copy that keeps every key.
KeepsKeyAlways(key) == TRUE

\* The test of line 226.
KeepsKey(key) == key # "additional_properties"

RECURSIVE cleanParameters(_)
RECURSIVE cleanEntries(_, _)
\* The for-in loop of lines 223-230 over the own keys of an object.
cleanEntries(params, kv) ==
  IF kv = <<>> THEN <<>>
  ELSE LET e == kv[1]
           rest == cleanEntries(params, Tail(kv))
       IN IF DropsFormat(params, e.k, e.v) THEN rest
          ELSE IF KeepsKey(e.k) THEN <<KV(e.k, cleanParameters(e.v))>> \o rest
          ELSE rest

cleanParameters(params) ==
  IF params.js = "array"
    THEN Arr([i \in 1..Len(params.items) |-> cleanParameters(params.items[i])])
  ELSE IF params.js = "object"
    THEN Obj(cleanEntries(params, params.kv))
  ELSE params

(***************************************************************************)
(* transformToolsForGemini (gemini.server.js 209-218).  A declaration is a *)
(* record; input_schema is a key it may or may not have.                   *)
(***************************************************************************)
transformToolKeepsSchema(tool) ==
  IF HasKey(tool, "input_schema") /\ Truthy(tool.input_schema)
    THEN [k \in DOMAIN tool \cup {"parameters"} |->
            IF k = "parameters" THEN cleanParameters(tool.input_schema) ELSE tool[k]]
    ELSE tool

\* Lines 210-216.
transformTool(tool) ==
  IF HasKey(tool, "input_schema") /\ Truthy(tool.input_schema)
    THEN [k \in (DOMAIN tool \ {"input_schema"}) \cup {"parameters"} |->
            IF k = "parameters" THEN cleanParameters(tool.input_schema) ELSE tool[k]]
    ELSE tool

transformToolsForGemini(tools) == [i \in 1..Len(tools) |-> transformTool(tools[i])]

(***************************************************************************)
(* Outcome of a call: a returned value or a thrown error.                  *)
(***************************************************************************)
Returned(v) == [ok |-> TRUE, value |-> v]
Thrown(e) == [ok |-> FALSE, error |-> e]

\* An error value: who raised it, its class and its message (as words).
Err(origin, name, message) == [origin |-> origin, name |-> name, message |-> message]

(***************************************************************************)
(* JSON.parse on the payload texts of the model: the documents below       *)
(* parse to the value they denote, every other text is a SyntaxError.      *)
(***************************************************************************)
Num(n) == [js |-> "number", n |-> n]
Bool(b) == [js |-> "boolean", b |-> b]

JsonDocuments ==
  ("42" :> Num(42)) @@
  ("[1,2]" :> Arr(<<Num(1), Num(2)>>)) @@
  ("{\"ok\":true}" :> Obj(<<KV("ok", Bool(TRUE))>>))

JsonSyntaxError == Err("JSON.parse", "SyntaxError", <<"Unexpected", "token">>)

\* A parse that hands the text back as it is.
JsonParseUnparsed(v) == Returned(v)

\* JSON.parse(v): v is converted to a string first, so undefined never parses.
JsonParse(v) ==
  IF IsString(v) /\ v.s \in DOMAIN JsonDocuments
    THEN Returned(JsonDocuments[v.s])
    ELSE Thrown(JsonSyntaxError)

PropertyTypeError == Err("runtime", "TypeError", <<"Cannot", "read", "properties", "of", "undefined">>)

(***************************************************************************)
(* formatHistoryForGemini (gemini.server.js 40-108).                       *)
(***************************************************************************)
\* Lines 58 and 85: the filter of the text blocks.
IsTextBlock(c) == c.type = "text" /\ HasKey(c, "text")
BlockText(c) == c.text

\* Lines 55-63 and 82-90: unwrap the content into one string.
TextContent(content) ==
  IF IsArray(content)
    THEN LET textBlocks == SelectSeq(content.items, IsTextBlock)
         IN Join([i \in 1..Len(textBlocks) |-> BlockText(textBlocks[i])], "\n")
  ELSE IF IsString(content) THEN content.s
  ELSE ""

\* Line 43: msg.tool_calls && msg.tool_calls.length > 0.
HasToolCalls(msg) == HasKey(msg, "tool_calls") /\ Len(msg.tool_calls) > 0

\* A part that is named by the invocation id instead of the tool.
FunctionCallPartById(tool_call) ==
  [functionCall |-> [name |-> tool_call.id, args |-> tool_call.function.arguments]]

\* Lines 46-51.
FunctionCallPart(tool_call) ==
  [functionCall |-> [name |-> tool_call.function.name,
                     args |-> tool_call.function.arguments]]

\* Line 69: Array.isArray(msg.content) && msg.content[0]?.type === 'tool_result'.
IsToolResultTurn(msg) ==
  /\ IsArray(msg.content)
  /\ Len(msg.content.items) > 0
  /\ msg.content.items[1].type = "tool_result"

\* Line 76: toolResult.content[0].text.
ToolResultText(toolResult) ==
  IF ~HasKey(toolResult, "content") THEN Thrown(PropertyTypeError)
  ELSE LET c == toolResult.content IN
    IF IsArray(c)
      THEN IF Len(c.items) = 0 THEN Thrown(PropertyTypeError)
           ELSE IF HasKey(c.items[1], "text") THEN Returned(S(c.items[1].text))
           ELSE Returned(Undefined)
    ELSE IF IsString(c)
      \* content[0] is a one-character string, which has no text property
      THEN IF c.s = "" THEN Thrown(PropertyTypeError) ELSE Returned(Undefined)
    ELSE IF c.js \in {"undefined", "null"} THEN Thrown(PropertyTypeError)
    ELSE Returned(Undefined)

\* A function turn that keeps the canonical role name.
FunctionTurnRoleTool(name, response) ==
  [role |-> "tool",
   parts |-> <<[functionResponse |-> [name |-> name, response |-> response]]>>]

\* Lines 71-79 and 95-103.
FunctionTurn(name, response) ==
  [role |-> "function",
   parts |-> <<[functionResponse |-> [name |-> name, response |-> response]]>>]

FieldOrUndefined(obj, key) == IF HasKey(obj, key) THEN S(obj[key]) ELSE Undefined

\* The callback of messages.map: the translated turn, Null, or a throw.
FormatTurn(msg) ==
  IF msg.role = "assistant" THEN
    IF HasToolCalls(msg)
      THEN Returned([role |-> "model",
                     parts |-> [i \in 1..Len(msg.tool_calls) |->
                                  FunctionCallPart(msg.tool_calls[i])]])
      ELSE Returned([role |-> "model", parts |-> <<[text |-> TextContent(msg.content)]>>])
  ELSE IF msg.role = "user" THEN
    IF IsToolResultTurn(msg)
      THEN LET toolResult == msg.content.items[1]
               text == ToolResultText(toolResult)
           IN IF ~text.ok THEN text
              ELSE LET parsed == JsonParse(text.value) IN
                   IF ~parsed.ok THEN parsed
                   ELSE Returned(FunctionTurn(FieldOrUndefined(toolResult, "tool_use_id"),
                                              parsed.value))
      ELSE Returned([role |-> "user", parts |-> <<[text |-> TextContent(msg.content)]>>])
  ELSE IF msg.role = "tool" THEN
    IF IsString(msg.content)
      THEN LET parsed == JsonParse(msg.content) IN
           IF ~parsed.ok THEN parsed
           ELSE Returned(FunctionTurn(FieldOrUndefined(msg, "name"), parsed.value))
      ELSE Returned(FunctionTurn(FieldOrUndefined(msg, "name"), msg.content))
  ELSE Returned(Null)

\* A filter that lets the null entries through.
KeepsTurnAlways(value) == TRUE

\* Line 107: filter(Boolean) keeps the turns and drops the nulls.
KeepsTurn(value) == value # Null

\* Lines 41 and 107: map, then filter(Boolean); the first throw ends the call.
RECURSIVE formatHistoryForGemini(_)
formatHistoryForGemini(messages) ==
  IF messages = <<>> THEN Returned(<<>>)
  ELSE LET first == FormatTurn(messages[1]) IN
    IF ~first.ok THEN first
    ELSE LET rest == formatHistoryForGemini(Tail(messages)) IN
      IF ~rest.ok THEN rest
      ELSE IF KeepsTurn(first.value)
        THEN Returned(<<first.value>> \o rest.value)
        ELSE rest

(***************************************************************************)
(* Inputs of one streamConversation call and answers of the provider.      *)
(***************************************************************************)
HandlerNames == {"onText", "onToolUse", "onMessage"}

SearchArgs == Obj(<<KV("query", S("shoes"))>>)
CartArgs == Obj(<<KV("lines", Arr(<<Num(1)>>))>>)

SearchSchema ==
  Obj(<<KV("type", S("object")),
        KV("additional_properties", Bool(FALSE)),
        KV("properties",
           Obj(<<KV("query", Obj(<<KV("type", S("string")), KV("format", S("email"))>>))>>))>>)

SearchTool ==
  [name |-> "search", description |-> "Search the catalog", input_schema |-> SearchSchema]

UserText(text) == [role |-> "user", content |-> S(text)]
AssistantCall(id, name, args) ==
  [role |-> "assistant", content |-> Null,
   tool_calls |-> <<[id |-> id, function |-> [name |-> name, arguments |-> args]]>>]
UserToolResult(id, payload) ==
  [role |-> "user",
   content |-> Arr(<<[type |-> "tool_result", tool_use_id |-> id,
                      content |-> Arr(<<[type |-> "text", text |-> payload]>>)]>>)]

\* The requests the orchestration layer makes: a plain question, a history
\* with a tool round trip, and a history whose tool result is not JSON.
Requests ==
  { [messages |-> <<UserText("hi")>>, tools |-> <<>>],
    [messages |-> <<UserText("find shoes"),
                    AssistantCall("toolu_01", "search", SearchArgs),
                    UserToolResult("toolu_01", "[1,2]")>>,
     tools |-> <<SearchTool>>],
    [messages |-> <<UserText("find shoes"),
                    UserToolResult("toolu_01", "not json")>>,
     tools |-> <<SearchTool>>] }

\* chunk.text() of the chunks of the provider stream.
ChunkTexts == {"", "Hel", "lo!"}

\* The message of the ReadableStream polyfill fault (line 140), as words.
PolyfillSignature ==
  <<"First", "parameter", "has", "member", "'readable'", "that", "is", "not", "a",
    "ReadableStream">>

\* The errors generateContentStream rejects with.
ProviderErrors ==
  { Err("provider", "Error", <<>>),
    Err("provider", "GoogleGenerativeAIError", <<"quota", "exceeded">>),
    Err("provider", "TypeError", PolyfillSignature),
    Err("provider", "TypeError", <<"TypeError:">> \o PolyfillSignature \o <<"at", "fetch">>),
    Err("provider", "TypeError", SubSeq(PolyfillSignature, 1, 5)) }

StreamError == Err("provider", "GoogleGenerativeAIError", <<"stream", "failed">>)
ResponseError == Err("provider", "GoogleGenerativeAIError", <<"response", "failed">>)
HandlerError(cb) == Err(cb, "Error", <<"handler", "failed">>)

\* Content parts of a terminal candidate.
TextPart == [text |-> "Hello!"]
SearchCall == [functionCall |-> [name |-> "search", args |-> SearchArgs]]
CartCall == [functionCall |-> [name |-> "cart", args |-> CartArgs]]

\* The parts arrays of the candidates: text only, calls only, both, a tool
\* called twice, and none.
PartLists ==
  { <<>>, <<TextPart>>, <<SearchCall>>, <<TextPart, SearchCall>>,
    <<SearchCall, CartCall>>, <<CartCall, SearchCall>>, <<SearchCall, SearchCall>>,
    <<SearchCall, TextPart, CartCall>> }

FinishReasons == {"STOP", "TOOL_USE", "MAX_TOKENS", "SAFETY"}

\* Candidates: with and without content, parts and finishReason.
Candidates ==
  LET contents == {[parts |-> ps] : ps \in PartLists}
                    \cup {[role |-> "model"]}
  IN   {[content |-> c, finishReason |-> r] : c \in contents, r \in FinishReasons}
  \cup {[content |-> c] : c \in contents}
  \cup {[finishReason |-> r] : r \in FinishReasons}

\* What `await result.response` resolves to.
AggregatedResponses ==
  {[candidates |-> <<c>>] : c \in Candidates}
    \cup {[candidates |-> <<>>], [promptFeedback |-> "SAFETY"]}

(***************************************************************************)
(* State of one streamConversation call (gemini.server.js 120-189).        *)
(***************************************************************************)
VARIABLES
  pc,                \* position of the coroutine
  messages,          \* argument: the caller's history
  tools,             \* argument: the caller's tool declarations
  streamHandlers,    \* argument: the names of the callbacks supplied
  request,           \* what generateContentStream was called with
  providerCalls,     \* number of generateContentStream calls issued
  providerError,     \* the error generateContentStream rejected with
  consumed,          \* chunk texts the for-await loop has taken so far
  fullResponseText,  \* line 148
  events,            \* callback invocations, in the order they were made
  pending,           \* onToolUse promises not yet settled
  aggregatedResponse, \* line 157
  responseCandidate, \* line 158
  geminiToolCalls,   \* line 161
  toolIdx,           \* position of the for-of loop of line 166
  finalMessage,      \* line 175
  returned,          \* the value the call resolved with
  failure,           \* the error the call rejected with
  consoleErrors      \* console.error lines written

VARIABLES
  processEnv,        \* process.env
  geminiService,     \* the createGeminiService call and what it made
  envConfig,         \* the EnvironmentConfig under construction
  health             \* one request to the health loader

vars ==
  <<pc, messages, tools, streamHandlers, request, providerCalls, providerError,
    consumed, fullResponseText, events, pending, aggregatedResponse, responseCandidate,
    geminiToolCalls, toolIdx, finalMessage, returned, failure, consoleErrors,
    processEnv, geminiService, envConfig, health>>

\* The state of one streamConversation call.
callState ==
  <<pc, messages, tools, streamHandlers, request, providerCalls, providerError,
    consumed, fullResponseText, events, pending, aggregatedResponse, responseCandidate,
    geminiToolCalls, toolIdx, finalMessage, returned, failure, consoleErrors>>

\* The state of the process around the call.
platform == <<processEnv, geminiService, envConfig, health>>

inputs == <<messages, tools, streamHandlers>>

\* The variables of process.env the program reads or writes.
EnvNames ==
  {"NODE_ENV", "SHOPIFY_API_KEY", "SHOPIFY_API_SECRET", "SHOPIFY_APP_URL", "CLAUDE_API_KEY",
   "DATABASE_URL", "REDIRECT_URL", "SESSION_SECRET", "RENDER_SERVICE_NAME", "HMR_SERVER_PORT",
   "PORT", "AI_PROVIDER", "LOG_LEVEL", "ENABLE_STRUCTURED_LOGGING", "ENABLE_CHAT_ANALYTICS",
   "ENABLE_PERFORMANCE_MONITORING", "SCOPES", "GEMINI_API_KEY"}

UnsetEnv == [name \in EnvNames |-> Undefined]

\* createGeminiService not yet called with the argument given.
ServiceUnbuilt(argument) ==
  [state |-> "unbuilt", argument |-> argument, apiKey |-> Undefined, clients |-> 0,
   error |-> Undefined]

\* Lines 117-118 passed: the client exists and the service object was returned.
ServiceCreated(argument, apiKey, clients) ==
  [state |-> "created", argument |-> argument, apiKey |-> apiKey, clients |-> clients,
   error |-> Undefined]

EnvConfigIdle == [pc |-> "idle", env |-> "", missing |-> <<>>, error |-> Undefined]

HealthIdle ==
  [pc |-> "idle", probe |-> "unsent", nodeEnv |-> Undefined, logs |-> <<>>,
   response |-> Undefined]

\* A process in which createGeminiService('key') has returned the service.
ServiceReady ==
  /\ processEnv = UnsetEnv
  /\ geminiService = ServiceCreated(S("key"), S("key"), 1)
  /\ envConfig = EnvConfigIdle
  /\ health = HealthIdle

\* AppConfig.api.gemini.defaultModel.
DefaultModel == "gemini-2.5-pro"

Init ==
  /\ pc = "idle"
  /\ \E r \in Requests : messages = r.messages /\ tools = r.tools
  /\ streamHandlers \in SUBSET HandlerNames
  /\ request = Undefined
  /\ providerCalls = 0
  /\ providerError = Undefined
  /\ consumed = <<>>
  /\ fullResponseText = ""
  /\ events = <<>>
  /\ pending = 0
  /\ aggregatedResponse = Undefined
  /\ responseCandidate = Undefined
  /\ geminiToolCalls = <<>>
  /\ toolIdx = 0
  /\ finalMessage = Undefined
  /\ returned = Undefined
  /\ failure = Undefined
  /\ consoleErrors = <<>>
  /\ ServiceReady

\* A failure that is swallowed and followed by a fresh attempt.
FailRetried(e) == pc' = "idle" /\ failure' = failure

\* The call rejects with e: nothing after the throw runs.
Fail(e) == pc' = "failed" /\ failure' = e

(***************************************************************************)
(* Lines 125-137: build the model and the history, issue the call.          *)
(***************************************************************************)
\* Line 129: the tools entry of the model configuration.
ModelTools(ts) ==
  IF Len(ts) > 0 THEN Arr(<<[functionDeclarations |-> transformToolsForGemini(ts)]>>)
  ELSE Undefined

\* A transform that works on the caller's own declarations.
CallerToolsTransformedInPlace(ts) == transformToolsForGemini(ts)

\* Lines 210-214: parameters is set and input_schema deleted on the spread copy
\* and cleanParameters fills new containers, so the caller's declarations are
\* after the call what they were before it.
CallerTools(ts) == ts

Start ==
  /\ pc = "idle"
  /\ geminiService.state = "created"
  /\ tools' = CallerTools(tools)
  /\ LET modelTools == ModelTools(tools)
         geminiHistory == formatHistoryForGemini(messages)
     IN IF ~geminiHistory.ok
          THEN /\ Fail(geminiHistory.error)
               /\ UNCHANGED <<request, providerCalls>>
          ELSE /\ request' = [model |-> DefaultModel, tools |-> modelTools,
                              contents |-> geminiHistory.value]
               /\ providerCalls' = providerCalls + 1
               /\ pc' = "awaitCall"
               /\ UNCHANGED failure
  /\ UNCHANGED <<messages, streamHandlers, aggregatedResponse,
                 providerError, consumed, fullResponseText, events, pending,
                 responseCandidate, geminiToolCalls, toolIdx, finalMessage, returned,
                 consoleErrors>>
  /\ UNCHANGED platform

(***************************************************************************)
(* Lines 136-146: the call settles.                                        *)
(***************************************************************************)
\* String.prototype.includes, on words.
Includes(message, part) ==
  \E i \in 1..(Len(message) - Len(part) + 1) :
    SubSeq(message, i, i + Len(part) - 1) = part

\* Line 140.
IsPolyfillConflict(error) ==
  error.message # <<>> /\ Includes(error.message, PolyfillSignature)

StreamingUnavailable ==
  Err("adapter", "Error",
      <<"Streaming", "is", "temporarily", "unavailable", "due", "to", "a",
        "ReadableStream", "compatibility", "issue.">>)

PolyfillLogLine == <<"ReadableStream", "polyfill", "conflict", "detected.">>

\* A catch block that wraps whatever the provider raised.
RethrownWrapped(error) == StreamingUnavailable

\* Lines 138-146: what the catch block throws.
Rethrown(error) == IF IsPolyfillConflict(error) THEN StreamingUnavailable ELSE error

CallResolved ==
  /\ pc = "awaitCall"
  /\ pc' = "streaming"
  /\ UNCHANGED <<inputs, aggregatedResponse,
                 request, providerCalls, providerError, consumed,
                 fullResponseText, events, pending, responseCandidate, geminiToolCalls,
                 toolIdx, finalMessage, returned, failure, consoleErrors>>
  /\ UNCHANGED platform

CallRejected(error) ==
  /\ pc = "awaitCall"
  /\ providerError' = error
  /\ consoleErrors' = IF IsPolyfillConflict(error)
                        THEN Append(consoleErrors, PolyfillLogLine)
                        ELSE consoleErrors
  /\ Fail(Rethrown(error))
  /\ UNCHANGED <<inputs, aggregatedResponse,
                 request, providerCalls, consumed, fullResponseText, events,
                 pending, responseCandidate, geminiToolCalls, toolIdx, finalMessage,
                 returned>>
  /\ UNCHANGED platform

(***************************************************************************)
(* Lines 148-155: the for-await loop over result.stream.                   *)
(***************************************************************************)
\* A loop that hands every chunk to onText, the empty ones too.
IsDeliveredEvenEmpty(chunkText) == TRUE

\* Line 151: if (chunkText).
IsDelivered(chunkText) == chunkText # ""

\* Line 152: the onText call a delivered chunk makes.
TextEvents(handlers, chunkText) ==
  IF "onText" \in handlers THEN <<[cb |-> "onText", text |-> chunkText]>> ELSE <<>>

\* An accumulator that puts the new fragment in front.
AccumulateInFront(text, chunkText) == chunkText \o text

\* Line 153.
Accumulate(text, chunkText) == text \o chunkText

StreamChunk(chunkText, handlerThrows) ==
  /\ pc = "streaming"
  /\ Len(consumed) < MaxChunks
  /\ consumed' = Append(consumed, chunkText)
  /\ IF IsDelivered(chunkText)
       THEN /\ events' = events \o TextEvents(streamHandlers, chunkText)
            /\ IF handlerThrows /\ "onText" \in streamHandlers
                 THEN /\ Fail(HandlerError("onText"))
                      /\ UNCHANGED fullResponseText
                 ELSE /\ fullResponseText' = Accumulate(fullResponseText, chunkText)
                      /\ UNCHANGED <<pc, failure>>
       ELSE /\ ~handlerThrows
            /\ UNCHANGED <<events, fullResponseText, pc, failure>>
  /\ UNCHANGED <<inputs, aggregatedResponse,
                 request, providerCalls, providerError, pending,
                 responseCandidate, geminiToolCalls, toolIdx, finalMessage, returned,
                 consoleErrors>>
  /\ UNCHANGED platform

\* The stream, or chunk.text(), throws.
StreamFails ==
  /\ pc = "streaming"
  /\ Fail(StreamError)
  /\ UNCHANGED <<inputs, aggregatedResponse,
                 request, providerCalls, providerError, consumed,
                 fullResponseText, events, pending, responseCandidate, geminiToolCalls,
                 toolIdx, finalMessage, returned, consoleErrors>>
  /\ UNCHANGED platform

\* The stream is exhausted: line 157 awaits result.response.
StreamEnds ==
  /\ pc = "streaming"
  /\ pc' = "awaitResponse"
  /\ UNCHANGED <<inputs, aggregatedResponse,
                 request, providerCalls, providerError, consumed,
                 fullResponseText, events, pending, responseCandidate, geminiToolCalls,
                 toolIdx, finalMessage, returned, failure, consoleErrors>>
  /\ UNCHANGED platform

(***************************************************************************)
(* Lines 157-165: the aggregated response.                                 *)
(***************************************************************************)
\* Line 158: aggregatedResponse.candidates?.[0].
FirstCandidate(response) ==
  IF HasKey(response, "candidates") /\ Len(response.candidates) > 0
    THEN response.candidates[1]
    ELSE Undefined

\* A check that lets a missing candidate through.
IsMissingIgnored(candidate) == FALSE

\* Line 159: if (!responseCandidate) throw.
IsMissing(candidate) == candidate = Undefined

NoCandidateError ==
  Err("adapter", "Error", <<"No", "response", "candidate", "found", "from", "Gemini.">>)

HasFunctionCall(part) == HasKey(part, "functionCall")
FunctionCallOf(part) == part.functionCall

\* Lines 161-163: content?.parts.filter(...).map(...) || [].
ToolCallsOf(candidate) ==
  IF ~HasKey(candidate, "content") THEN Returned(<<>>)
  ELSE IF ~HasKey(candidate.content, "parts") THEN Thrown(PropertyTypeError)
  ELSE LET callParts == SelectSeq(candidate.content.parts, HasFunctionCall)
       IN Returned([i \in 1..Len(callParts) |-> FunctionCallOf(callParts[i])])

\* A test that enters the loop whether or not onToolUse was supplied.
EntersDispatchUnguarded(handlers, calls) == Len(calls) > 0

\* Line 165: whether the dispatch loop is entered.
EntersDispatch(handlers, calls) == "onToolUse" \in handlers /\ Len(calls) > 0

ResponseRejected ==
  /\ pc = "awaitResponse"
  /\ Fail(ResponseError)
  /\ UNCHANGED <<inputs, aggregatedResponse,
                 request, providerCalls, providerError, consumed,
                 fullResponseText, events, pending, responseCandidate, geminiToolCalls,
                 toolIdx, finalMessage, returned, consoleErrors>>
  /\ UNCHANGED platform

ResponseResolved(response) ==
  /\ pc = "awaitResponse"
  /\ aggregatedResponse' = response
  /\ LET candidate == FirstCandidate(response) IN
       /\ responseCandidate' = candidate
       /\ IF IsMissing(candidate)
            THEN /\ Fail(NoCandidateError)
                 /\ UNCHANGED <<geminiToolCalls, toolIdx>>
            ELSE LET calls == ToolCallsOf(candidate) IN
              IF ~calls.ok
                THEN /\ Fail(calls.error)
                     /\ UNCHANGED <<geminiToolCalls, toolIdx>>
                ELSE /\ geminiToolCalls' = calls.value
                     /\ toolIdx' = 1
                     /\ pc' = IF EntersDispatch(streamHandlers, calls.value)
                                THEN "toolLoop" ELSE "finalize"
                     /\ UNCHANGED failure
  /\ UNCHANGED <<inputs, request, providerCalls, providerError, consumed,
                 fullResponseText, events, pending, finalMessage, returned,
                 consoleErrors>>
  /\ UNCHANGED platform

(***************************************************************************)
(* Lines 166-171: the dispatch loop.                                       *)
(***************************************************************************)
\* Lines 167-169 and 178: the tool_use block of a function call.
ToolUseBlockFreshId(call) ==
  [type |-> "tool_use", id |-> "toolu_" \o call.name, name |-> call.name, input |-> call.args]

\* Lines 166-169: the tool-use block of a function call.
ToolUseBlock(call) ==
  [type |-> "tool_use", id |-> call.name, name |-> call.name, input |-> call.args]

\* A loop that does not wait for the promise of the previous call.
AwaitSkipped(unsettled) == TRUE

\* Line 170: the await lets the loop go on once the promise has settled.
AwaitSettled(unsettled) == unsettled = 0

ToolInvoke ==
  /\ pc = "toolLoop"
  /\ toolIdx <= Len(geminiToolCalls)
  /\ events' = Append(events, [cb |-> "onToolUse",
                               block |-> ToolUseBlock(geminiToolCalls[toolIdx])])
  /\ pending' = pending + 1
  /\ pc' = "toolAwait"
  /\ UNCHANGED <<inputs, aggregatedResponse,
                 request, providerCalls, providerError, consumed,
                 fullResponseText, responseCandidate, geminiToolCalls, toolIdx,
                 finalMessage, returned, failure, consoleErrors>>
  /\ UNCHANGED platform

\* A promise returned by onToolUse settles; a rejection is thrown by the await.
ToolSettles(fulfilled) ==
  /\ pc = "toolAwait"
  /\ pending > 0
  /\ pending' = pending - 1
  /\ IF fulfilled THEN UNCHANGED <<pc, failure>> ELSE Fail(HandlerError("onToolUse"))
  /\ UNCHANGED <<inputs, aggregatedResponse,
                 request, providerCalls, providerError, consumed,
                 fullResponseText, events, responseCandidate, geminiToolCalls, toolIdx,
                 finalMessage, returned, consoleErrors>>
  /\ UNCHANGED platform

ToolResume ==
  /\ pc = "toolAwait"
  /\ AwaitSettled(pending)
  /\ toolIdx' = toolIdx + 1
  /\ pc' = IF toolIdx + 1 <= Len(geminiToolCalls) THEN "toolLoop" ELSE "finalize"
  /\ UNCHANGED <<inputs, aggregatedResponse,
                 request, providerCalls, providerError, consumed,
                 fullResponseText, events, pending, responseCandidate, geminiToolCalls,
                 finalMessage, returned, failure, consoleErrors>>
  /\ UNCHANGED platform

(***************************************************************************)
(* Lines 174-188: the final message, onMessage, return.                    *)
(***************************************************************************)
\* A content that keeps the streamed text in front of the tool_use blocks.
FinalContentWithText(calls, text) ==
  IF Len(calls) > 0
    THEN Arr(<<[type |-> "text", text |-> text]>>
               \o [i \in 1..Len(calls) |-> ToolUseBlock(calls[i])])
  ELSE Arr(<<[type |-> "text", text |-> text]>>)

\* Lines 177-179.
FinalContent(calls, text) ==
  IF Len(calls) > 0 THEN Arr([i \in 1..Len(calls) |-> ToolUseBlock(calls[i])])
  ELSE Arr(<<[type |-> "text", text |-> text]>>)

\* A stop reason that looks at the parts of the candidate first.
StopReasonFromContent(candidate) ==
  LET calls == ToolCallsOf(candidate) IN
  IF calls.ok /\ Len(calls.value) > 0 THEN "tool_use"
  ELSE mapFinishReason(FieldOrUndefined(candidate, "finishReason"))

\* Line 181.
StopReason(candidate) == mapFinishReason(FieldOrUndefined(candidate, "finishReason"))

\* Lines 175-182.
FinalMessage(calls, text, candidate) ==
  [role |-> "assistant", content |-> FinalContent(calls, text), model |-> DefaultModel,
   stop_reason |-> StopReason(candidate)]

\* A tail that notifies onMessage a second time.
MessageEventsTwice(handlers, message) ==
  IF "onMessage" \in handlers
    THEN <<[cb |-> "onMessage", message |-> message],
           [cb |-> "onMessage", message |-> message]>>
    ELSE <<>>

\* Lines 184-186.
MessageEvents(handlers, message) ==
  IF "onMessage" \in handlers THEN <<[cb |-> "onMessage", message |-> message]>> ELSE <<>>

\* A return of a rebuilt message that leaves the stop reason out.
ReturnValueRebuilt(message) ==
  [role |-> message.role, content |-> message.content, model |-> message.model]

\* Line 188.
ReturnValue(message) == message

Finalize(handlerThrows) ==
  /\ pc = "finalize"
  /\ LET message == FinalMessage(geminiToolCalls, fullResponseText, responseCandidate) IN
       /\ finalMessage' = message
       /\ events' = events \o MessageEvents(streamHandlers, message)
       /\ IF handlerThrows /\ "onMessage" \in streamHandlers
            THEN /\ Fail(HandlerError("onMessage"))
                 /\ UNCHANGED returned
            ELSE /\ returned' = ReturnValue(message)
                 /\ pc' = "done"
                 /\ UNCHANGED failure
  /\ UNCHANGED <<inputs, aggregatedResponse,
                 request, providerCalls, providerError, consumed,
                 fullResponseText, pending, responseCandidate, geminiToolCalls, toolIdx,
                 consoleErrors>>
  /\ UNCHANGED platform

Next ==
  \/ Start
  \/ CallResolved
  \/ \E error \in ProviderErrors : CallRejected(error)
  \/ \E chunkText \in ChunkTexts, handlerThrows \in BOOLEAN :
       StreamChunk(chunkText, handlerThrows)
  \/ StreamFails
  \/ StreamEnds
  \/ ResponseRejected
  \/ \E response \in AggregatedResponses : ResponseResolved(response)
  \/ ToolInvoke
  \/ \E fulfilled \in BOOLEAN : ToolSettles(fulfilled)
  \/ ToolResume
  \/ \E handlerThrows \in BOOLEAN : Finalize(handlerThrows)

Spec == Init /\ [][Next]_vars

(***************************************************************************)
(* Properties of streamConversation.                                        *)
(***************************************************************************)
Supplied(cb) == cb \in streamHandlers
EventsOf(cb) == SelectSeq(events, LAMBDA e : e.cb = cb)
Texts(evs) == [i \in 1..Len(evs) |-> evs[i].text]
Blocks(evs) == [i \in 1..Len(evs) |-> evs[i].block]
NonEmpty(strs) == SelectSeq(strs, LAMBDA str : str # "")
IsPrefix(p, q) == Len(p) <= Len(q) /\ SubSeq(q, 1, Len(p)) = p

\* C1: at every moment of a call with onText supplied, the texts onText has
\* been called with are exactly the non-empty chunk texts taken from the
\* stream so far, one call per chunk, in arrival order; empty chunks make no
\* call.
C1_OnTextPerFragment ==
  Supplied("onText") => Texts(EventsOf("onText")) = NonEmpty(consumed)

\* C1 witness: an empty chunk and two fragments were taken, two calls made.
C1_Witness ==
  /\ Supplied("onText")
  /\ consumed = <<"Hel", "", "lo!">>
  /\ Texts(EventsOf("onText")) = <<"Hel", "lo!">>

CallbackRank(cb) ==
  CASE cb = "onText" -> 1 [] cb = "onToolUse" -> 2 [] cb = "onMessage" -> 3

PhaseRank(p) ==
  CASE p \in {"idle", "awaitCall"} -> 0
    [] p = "streaming" -> 1
    [] p = "awaitResponse" -> 2
    [] p \in {"toolLoop", "toolAwait"} -> 3
    [] p \in {"finalize", "done", "failed"} -> 4

\* The callback order on the events made so far.
CallbackOrder ==
  /\ \A i, j \in 1..Len(events) :
       i < j => CallbackRank(events[i].cb) <= CallbackRank(events[j].cb)
  /\ Len(EventsOf("onMessage")) <= 1
  /\ Len(EventsOf("onMessage")) = 1 =>
       /\ events[Len(events)].cb = "onMessage"
       /\ pending = 0
       /\ pc \in {"done", "failed"}
  /\ pc = "done" /\ Supplied("onMessage") => Len(EventsOf("onMessage")) = 1

\* Each step moves forward through the phases and makes the callback of its
\* phase only.
PhaseStep ==
  /\ PhaseRank(pc') >= PhaseRank(pc)
  /\ IsPrefix(events, events')
  /\ \A i \in (Len(events) + 1)..Len(events') :
       \/ events'[i].cb = "onText" /\ pc = "streaming"
       \/ events'[i].cb = "onToolUse" /\ pc = "toolLoop"
       \/ events'[i].cb = "onMessage" /\ pc = "finalize"

\* C2: the callbacks follow the phases Idle, Streaming, Aggregating, ToolDispatch,
\* Completed: every onText call comes before every onToolUse call, onMessage is
\* called once in a successful run, after every onText call and after every
\* onToolUse promise has settled, and nothing is called after it.
C2_PhaseOrder == [](CallbackOrder) /\ [][PhaseStep]_vars

\* C2 witness: a successful run that made all three kinds of callback.
C2_Witness ==
  /\ pc = "done"
  /\ Len(EventsOf("onText")) = 2
  /\ Len(EventsOf("onToolUse")) = 2
  /\ Len(EventsOf("onMessage")) = 1

\* The function calls of the terminal response, in the order of its parts.
RECURSIVE CallsIn(_)
CallsIn(parts) ==
  IF parts = <<>> THEN <<>>
  ELSE IF "functionCall" \in DOMAIN parts[1]
    THEN <<parts[1].functionCall>> \o CallsIn(Tail(parts))
    ELSE CallsIn(Tail(parts))

ResponseCalls ==
  IF responseCandidate # Undefined
     /\ "content" \in DOMAIN responseCandidate
     /\ "parts" \in DOMAIN responseCandidate.content
    THEN CallsIn(responseCandidate.content.parts)
    ELSE <<>>

CallNames(calls) == [i \in 1..Len(calls) |-> calls[i].name]
BlockNames(blocks) == [i \in 1..Len(blocks) |-> blocks[i].name]

\* C3: onToolUse is called for the function calls of the terminal response in
\* their order, never with two calls in flight, once for each of them by the
\* time a call with onToolUse supplied completes, and never when the response
\* carries no function call.
C3_SequentialToolUse ==
  /\ pending <= 1
  /\ IsPrefix(BlockNames(Blocks(EventsOf("onToolUse"))), CallNames(ResponseCalls))
  /\ Len(EventsOf("onToolUse")) > 0 => Supplied("onToolUse")
  /\ pc \in {"finalize", "done"} /\ Supplied("onToolUse") =>
       Len(EventsOf("onToolUse")) = Len(ResponseCalls)
  /\ pending = 1 => Len(EventsOf("onToolUse")) = toolIdx

\* C3 witness: the second of two calls is in flight after the first settled.
C3_Witness ==
  /\ CallNames(ResponseCalls) = <<"search", "cart">>
  /\ BlockNames(Blocks(EventsOf("onToolUse"))) = <<"search", "cart">>
  /\ pending = 1

BlockTypes(message) ==
  {message.content.items[i].type : i \in 1..Len(message.content.items)}

\* C4: when the terminal response carries a function call, the content of the
\* final message is one tool_use block per function call and no text block,
\* whatever was streamed; no final message holds both kinds of block.
C4_ToolCallExclusivity ==
  finalMessage # Undefined =>
    /\ Cardinality(BlockTypes(finalMessage)) = 1
    /\ Len(ResponseCalls) > 0 =>
         /\ BlockTypes(finalMessage) = {"tool_use"}
         /\ BlockNames(finalMessage.content.items) = CallNames(ResponseCalls)

\* C4 witness: text was streamed to onText, and the message holds tool_use only.
C4_Witness ==
  /\ finalMessage # Undefined
  /\ Texts(EventsOf("onText")) = <<"Hel", "lo!">>
  /\ CallNames(ResponseCalls) = <<"search", "cart">>
  /\ BlockTypes(finalMessage) = {"tool_use"}

RECURSIVE Concat(_)
Concat(strs) == IF strs = <<>> THEN "" ELSE strs[1] \o Concat(Tail(strs))

ProviderFinish ==
  IF "finishReason" \in DOMAIN responseCandidate
    THEN responseCandidate.finishReason ELSE "(absent)"

\* C5: the accumulated text is the concatenation, in arrival order, of the
\* fragments delivered to onText; with no function call in the terminal response
\* the content of the final message is one text block carrying it, so fragments
\* "Hel", "lo!" and finish reason STOP give the text "Hello!" and end_turn.
C5_TextConcatenation ==
  /\ failure # HandlerError("onText") =>
       /\ fullResponseText = Concat(NonEmpty(consumed))
       /\ Supplied("onText") => fullResponseText = Concat(Texts(EventsOf("onText")))
  /\ finalMessage # Undefined /\ Len(ResponseCalls) = 0 =>
       /\ finalMessage.content.items = <<[type |-> "text", text |-> Concat(NonEmpty(consumed))]>>
       /\ consumed = <<"Hel", "lo!">> /\ ProviderFinish = "STOP" =>
            /\ finalMessage.content.items = <<[type |-> "text", text |-> "Hello!"]>>
            /\ finalMessage.stop_reason = "end_turn"
            /\ finalMessage.role = "assistant"

\* C5 witness: the scenario of the two fragments, delivered to onMessage.
C5_Witness ==
  /\ pc = "done"
  /\ Texts(EventsOf("onText")) = <<"Hel", "lo!">>
  /\ Len(EventsOf("onToolUse")) = 0
  /\ ProviderFinish = "STOP"
  /\ Len(EventsOf("onMessage")) = 1
  /\ EventsOf("onMessage")[1].message.content.items = <<[type |-> "text", text |-> "Hello!"]>>

\* C6: a call that completes returns the very message onMessage received, and
\* a message is returned only by a call that completed, after onMessage (when
\* supplied) was called with it.
C6_ReturnIsOnMessage ==
  /\ pc = "done" =>
       /\ returned = finalMessage
       /\ Supplied("onMessage") =>
            EventsOf("onMessage") = <<[cb |-> "onMessage", message |-> returned]>>
  /\ returned # Undefined => pc = "done"

\* C6 witness: a completed call whose onMessage got the returned tool_use message.
C6_Witness ==
  /\ pc = "done"
  /\ Supplied("onMessage")
  /\ events[Len(events)].message = returned
  /\ returned.stop_reason = "tool_use"

CanonicalStopReasons == {"end_turn", "tool_use", "max_tokens"}

\* C7: the stop reason of every final message is end_turn for STOP, tool_use for
\* TOOL_USE, max_tokens for MAX_TOKENS and end_turn for any other or absent
\* finish reason, and mapping the reason never fails the call.
C7_StopReasonMapping ==
  /\ finalMessage # Undefined =>
       /\ finalMessage.stop_reason \in CanonicalStopReasons
       /\ ProviderFinish = "STOP" => finalMessage.stop_reason = "end_turn"
       /\ ProviderFinish = "TOOL_USE" => finalMessage.stop_reason = "tool_use"
       /\ ProviderFinish = "MAX_TOKENS" => finalMessage.stop_reason = "max_tokens"
       /\ ~(ProviderFinish \in {"STOP", "TOOL_USE", "MAX_TOKENS"}) =>
            finalMessage.stop_reason = "end_turn"
       /\ pc = "failed" => failure.origin = "onMessage"
  /\ pc = "finalize" => ENABLED Finalize(FALSE)

\* C7 witness: a finish reason outside the known set ended a completed call.
C7_Witness ==
  /\ pc = "done"
  /\ ProviderFinish = "SAFETY"
  /\ returned.stop_reason = "end_turn"

HasPolyfillSignature(message) ==
  \E i \in 1..Len(message) : \E j \in i..Len(message) :
    SubSeq(message, i, j) = PolyfillSignature

\* C8: when generateContentStream rejects, the call fails and no callback is
\* ever called; a rejection carrying the polyfill signature reaches the caller
\* as the one "streaming is temporarily unavailable" error, any other rejection
\* as the very error the provider raised.
C8_CallRejection ==
  /\ pc \in {"idle", "awaitCall"} => events = <<>>
  /\ providerError # Undefined =>
       /\ pc = "failed"
       /\ events = <<>>
       /\ returned = Undefined
       /\ IF HasPolyfillSignature(providerError.message)
            THEN /\ failure.origin = "adapter"
                 /\ SubSeq(failure.message, 1, 4) = <<"Streaming", "is", "temporarily", "unavailable">>
                 /\ Len(consoleErrors) = 1
            ELSE failure = providerError

\* C8 witness: the signature inside a longer message was translated.
C8_Witness ==
  /\ providerError # Undefined
  /\ providerError.message[1] = "TypeError:"
  /\ failure = StreamingUnavailable

NoCandidate ==
  /\ aggregatedResponse # Undefined
  /\ \/ ~("candidates" \in DOMAIN aggregatedResponse)
     \/ Len(aggregatedResponse.candidates) = 0

\* C9: when the aggregated response has no candidate the call fails, neither
\* onToolUse nor onMessage is called and no message is returned, though onText
\* may have been called for streamed fragments.
C9_MissingCandidate ==
  NoCandidate =>
    /\ pc = "failed"
    /\ failure = NoCandidateError
    /\ EventsOf("onToolUse") = <<>>
    /\ EventsOf("onMessage") = <<>>
    /\ finalMessage = Undefined
    /\ returned = Undefined

\* C9 witness: fragments reached onText before the response came without candidate.
C9_Witness ==
  /\ NoCandidate
  /\ streamHandlers = HandlerNames
  /\ Texts(EventsOf("onText")) = <<"Hel", "lo!">>

\* A failed call is over: its error is set, nothing is returned.
FailureSurfaced ==
  /\ providerCalls <= 1
  /\ pc = "failed" <=> failure # Undefined
  /\ failure # Undefined => returned = Undefined
  /\ Len(consoleErrors) > 0 => failure # Undefined

\* C10: one call issues generateContentStream at most once; after a rejected
\* call, a stream error, a missing candidate or a callback failure nothing more
\* happens, and the failure is what the caller gets.
C10_NoRetry == [](FailureSurfaced) /\ [][pc # "failed"]_vars

\* C10 witness: a callback failed after the one provider call.
C10_Witness ==
  /\ pc = "failed"
  /\ failure = HandlerError("onToolUse")
  /\ providerCalls = 1

\* The message the provider's answer determines, whatever callbacks are supplied.
AnswerMessage ==
  [role |-> "assistant",
   content |->
     IF Len(ResponseCalls) > 0
       THEN Arr([i \in 1..Len(ResponseCalls) |->
                   [type |-> "tool_use", id |-> ResponseCalls[i].name,
                    name |-> ResponseCalls[i].name, input |-> ResponseCalls[i].args]])
       ELSE Arr(<<[type |-> "text", text |-> Concat(NonEmpty(consumed))]>>),
   model |-> "gemini-2.5-pro",
   stop_reason |->
     CASE ProviderFinish = "TOOL_USE" -> "tool_use"
       [] ProviderFinish = "MAX_TOKENS" -> "max_tokens"
       [] OTHER -> "end_turn"]

\* C11: for every subset of supplied callbacks, a callback that is absent is
\* never called and never fails the call, the supplied ones are called as with
\* all three, and the returned message is the one the provider's answer
\* determines, tool_use blocks included when onToolUse is absent.
C11_OptionalCallbacks ==
  /\ \A i \in 1..Len(events) : Supplied(events[i].cb)
  /\ pc = "failed" /\ failure.origin \in HandlerNames => Supplied(failure.origin)
  /\ pc = "done" =>
       /\ returned = AnswerMessage
       /\ Supplied("onText") => Texts(EventsOf("onText")) = NonEmpty(consumed)
       /\ Supplied("onToolUse") =>
            BlockNames(Blocks(EventsOf("onToolUse"))) = CallNames(ResponseCalls)
       /\ Supplied("onMessage") => Len(EventsOf("onMessage")) = 1

\* C11 witness: only onMessage is supplied and the returned content is two
\* tool_use blocks after streamed text.
C11_Witness ==
  /\ pc = "done"
  /\ streamHandlers = {"onMessage"}
  /\ consumed = <<"Hel", "lo!">>
  /\ events = <<[cb |-> "onMessage", message |-> returned]>>
  /\ BlockTypes(returned) = {"tool_use"}
  /\ BlockNames(returned.content.items) = <<"search", "cart">>

(***************************************************************************)
(* The history translator on its own: streamConversation is entered with   *)
(* any history of up to MaxTurns canonical turns and runs to line 137.     *)
(***************************************************************************)
TextBlock(text) == [type |-> "text", text |-> text]
ToolResultBlock(id, payload) ==
  [type |-> "tool_result", tool_use_id |-> id, content |-> Arr(<<TextBlock(payload)>>)]
ToolUseContentBlock ==
  [type |-> "tool_use", id |-> "toolu_01", name |-> "search", input |-> SearchArgs]

\* Turns of the canonical history, by what the translator does with them.
AssistantTurns ==
  { [role |-> "assistant", content |-> S("Here you are")],
    [role |-> "assistant",
     content |-> Arr(<<TextBlock("a"), ToolUseContentBlock, TextBlock("b")>>)],
    AssistantCall("toolu_01", "search", SearchArgs),
    [role |-> "assistant", content |-> Null,
     tool_calls |-> <<[id |-> "toolu_01", function |-> [name |-> "search", arguments |-> SearchArgs]],
                      [id |-> "toolu_02", function |-> [name |-> "cart", arguments |-> CartArgs]]>>] }

UserTurns ==
  { UserText("hi"),
    [role |-> "user",
     content |-> Arr(<<TextBlock("a"), ToolResultBlock("toolu_01", "42"), TextBlock("b")>>)],
    UserToolResult("toolu_01", "[1,2]"),
    UserToolResult("toolu_01", "not json"),
    [role |-> "user",
     content |-> Arr(<<ToolResultBlock("toolu_01", "[1,2]"), ToolResultBlock("toolu_02", "42")>>)],
    [role |-> "user",
     content |-> Arr(<<ToolResultBlock("toolu_01", "[1,2]"),
                       ToolResultBlock("toolu_02", "not json")>>)] }

ToolTurns ==
  { [role |-> "tool", name |-> "search", content |-> S("{\"ok\":true}")],
    [role |-> "tool", name |-> "search", content |-> Obj(<<KV("ok", Bool(TRUE))>>)],
    [role |-> "tool", name |-> "cart", content |-> S("not json")] }

OtherTurns == { [role |-> "system", content |-> S("Be brief")] }

Turns == AssistantTurns \cup UserTurns \cup ToolTurns \cup OtherTurns

RECURSIVE HistoriesUpTo(_)
HistoriesUpTo(n) ==
  IF n = 0 THEN {<<>>}
  ELSE LET shorter == HistoriesUpTo(n - 1)
       IN shorter \cup {Append(h, t) : h \in shorter, t \in Turns}

InitHistory ==
  /\ pc = "idle"
  /\ messages \in HistoriesUpTo(MaxTurns)
  /\ tools = <<>>
  /\ streamHandlers = HandlerNames
  /\ request = Undefined
  /\ providerCalls = 0
  /\ providerError = Undefined
  /\ consumed = <<>>
  /\ fullResponseText = ""
  /\ events = <<>>
  /\ pending = 0
  /\ aggregatedResponse = Undefined
  /\ responseCandidate = Undefined
  /\ geminiToolCalls = <<>>
  /\ toolIdx = 0
  /\ finalMessage = Undefined
  /\ returned = Undefined
  /\ failure = Undefined
  /\ consoleErrors = <<>>
  /\ ServiceReady

NextHistory == Start

SpecHistory == InitHistory /\ [][NextHistory]_vars

(***************************************************************************)
(* Properties of formatHistoryForGemini.                                    *)
(***************************************************************************)
KnownRoles == {"user", "assistant", "tool"}

\* The turns of the history that have a target-native counterpart.
KeptTurns == SelectSeq(messages, LAMBDA t : t.role \in KnownRoles)

\* The history was translated and sent.
Translated == pc = "awaitCall" /\ request # Undefined

StartsWithToolResult(t) ==
  /\ t.role = "user"
  /\ t.content.js = "array"
  /\ Len(t.content.items) > 0
  /\ t.content.items[1].type = "tool_result"

CallsTools(t) ==
  t.role = "assistant" /\ "tool_calls" \in DOMAIN t /\ Len(t.tool_calls) > 0

IsTextTurn(t) ==
  \/ t.role = "assistant" /\ ~CallsTools(t)
  \/ t.role = "user" /\ ~StartsWithToolResult(t)

NativeRole(t) ==
  CASE t.role = "assistant" -> "model"
    [] t.role = "tool" -> "function"
    [] t.role = "user" -> IF StartsWithToolResult(t) THEN "function" ELSE "user"

\* The payload texts that are JSON documents, and the values they denote.
ValidPayloads == {"42", "[1,2]", "{\"ok\":true}"}
PayloadValue(text) ==
  CASE text = "42" -> [js |-> "number", n |-> 42]
    [] text = "[1,2]" -> [js |-> "array", items |-> <<[js |-> "number", n |-> 1],
                                                      [js |-> "number", n |-> 2]>>]
    [] text = "{\"ok\":true}" ->
         [js |-> "object", kv |-> <<[k |-> "ok", v |-> [js |-> "boolean", b |-> TRUE]]>>]

\* The payload the translator parses for a turn is not a JSON document.
ParsedPayloadIsBad(t) ==
  \/ StartsWithToolResult(t) /\ ~(t.content.items[1].content.items[1].text \in ValidPayloads)
  \/ t.role = "tool" /\ t.content.js = "string" /\ ~(t.content.s \in ValidPayloads)

\* C12: the output holds one turn for each input turn of role user, assistant
\* or tool, in the order of the input, and none for a turn of another role,
\* which raises no error either.
C12_OrderAndCount ==
  /\ Translated =>
       /\ Len(request.contents) = Len(KeptTurns)
       /\ \A i \in 1..Len(KeptTurns) : request.contents[i].role = NativeRole(KeptTurns[i])
  /\ pc = "failed" => \E i \in 1..Len(KeptTurns) : ParsedPayloadIsBad(KeptTurns[i])
  /\ pc = "idle" /\ (\A i \in 1..Len(KeptTurns) : ~ParsedPayloadIsBad(KeptTurns[i])) =>
       ENABLED (Start /\ pc' = "awaitCall")

\* C12 witness: a system turn between a user turn and a tool turn is left out.
C12_Witness ==
  /\ Translated
  /\ Len(messages) = 3
  /\ messages[1].role = "user" /\ messages[2].role = "system" /\ messages[3].role = "tool"
  /\ Len(request.contents) = 2
  /\ request.contents[1].role = "user" /\ request.contents[2].role = "function"

\* The tool_result blocks of a user turn, at any position of its content.
ToolResultsOf(t) ==
  IF t.role = "user" /\ t.content.js = "array"
    THEN SelectSeq(t.content.items, LAMBDA b : b.type = "tool_result")
    ELSE <<>>

\* The payload text of a tool_result block.
PayloadOf(block) == block.content.items[1].text

\* The functionResponse fragments of a translated turn.
ResponsesOf(turn) == SelectSeq(turn.parts, LAMBDA p : "functionResponse" \in DOMAIN p)

\* C13: when an assistant turn calls a tool under the identifier X and a later
\* tool-result turn refers to X, the translated function response is named X
\* and the translated function call, encoded back as a tool-use block, has
\* the id X.
C13_IdentifierRoundTrip ==
  Translated /\ Len(request.contents) = Len(KeptTurns) =>
    \A i \in 1..Len(KeptTurns) : \A k \in 1..Len(KeptTurns) :
      i < k /\ CallsTools(KeptTurns[i]) /\ StartsWithToolResult(KeptTurns[k]) =>
        \A j \in 1..Len(KeptTurns[i].tool_calls) :
          LET X == KeptTurns[i].tool_calls[j].id IN
          KeptTurns[k].content.items[1].tool_use_id = X =>
            /\ request.contents[k].parts[1].functionResponse.name = S(X)
            /\ ToolUseBlock(request.contents[i].parts[j].functionCall).id = X

\* C14: an assistant turn with tool calls becomes one model turn with one
\* functionCall fragment per call, in the order of the calls, each with the
\* name of the tool and the arguments of the call as they were.
C14_ToolCallsToFunctionCalls ==
  Translated /\ Len(request.contents) = Len(KeptTurns) =>
    \A i \in 1..Len(KeptTurns) :
      CallsTools(KeptTurns[i]) =>
        LET calls == KeptTurns[i].tool_calls IN
        /\ request.contents[i].role = "model"
        /\ Len(request.contents[i].parts) = Len(calls)
        /\ \A j \in 1..Len(calls) :
             request.contents[i].parts[j] =
               [functionCall |-> [name |-> calls[j].function.name,
                                  args |-> calls[j].function.arguments]]

\* C14 witness: a turn with a search call and a cart call was translated.
C14_Witness ==
  /\ Translated
  /\ Len(messages) = 1 /\ CallsTools(messages[1]) /\ Len(messages[1].tool_calls) = 2
  /\ request.contents =
       <<[role |-> "model",
          parts |-> <<[functionCall |-> [name |-> "search", args |-> SearchArgs]],
                      [functionCall |-> [name |-> "cart", args |-> CartArgs]]>>]>>

\* The texts of the text blocks of a content array, one per line.
RECURSIVE TextLines(_)
TextLines(blocks) ==
  IF blocks = <<>> THEN ""
  ELSE IF blocks[1].type # "text" THEN TextLines(Tail(blocks))
  ELSE IF \E n \in 2..Len(blocks) : blocks[n].type = "text"
    THEN blocks[1].text \o "\n" \o TextLines(Tail(blocks))
    ELSE blocks[1].text

\* C15: an assistant turn without tool calls, and a user turn that does not
\* start with a tool result, become a turn with one text fragment: the texts
\* of the text blocks in order, joined by a newline, the other blocks skipped
\* ([a, other, b] gives "a\nb"); a plain string is the text as it is.
C15_TextExtraction ==
  Translated /\ Len(request.contents) = Len(KeptTurns) =>
    \A i \in 1..Len(KeptTurns) :
      LET t == KeptTurns[i] IN
      IsTextTurn(t) =>
        /\ Len(request.contents[i].parts) = 1
        /\ DOMAIN request.contents[i].parts[1] = {"text"}
        /\ t.content.js = "string" => request.contents[i].parts[1].text = t.content.s
        /\ t.content.js = "array" =>
             request.contents[i].parts[1].text = TextLines(t.content.items)
        /\ (/\ t.content.js = "array"
            /\ Len(t.content.items) = 3
            /\ t.content.items[1] = [type |-> "text", text |-> "a"]
            /\ t.content.items[2].type # "text"
            /\ t.content.items[3] = [type |-> "text", text |-> "b"])
           => request.contents[i].parts[1].text = "a\nb"

\* C15 witness: [a, tool_result, b] of the user, [a, tool_use, b] of the
\* assistant and a plain string were translated.
C15_Witness ==
  /\ Translated
  /\ Len(messages) = 3
  /\ messages[1].role = "user" /\ messages[1].content.js = "array"
  /\ Len(messages[1].content.items) = 3 /\ messages[1].content.items[2].type = "tool_result"
  /\ messages[2].role = "assistant" /\ ~CallsTools(messages[2])
  /\ messages[2].content.js = "array" /\ messages[2].content.items[2].type = "tool_use"
  /\ messages[3].role = "assistant" /\ messages[3].content.js = "string"
  /\ request.contents = <<[role |-> "user", parts |-> <<[text |-> "a\nb"]>>],
                          [role |-> "model", parts |-> <<[text |-> "a\nb"]>>],
                          [role |-> "model", parts |-> <<[text |-> "Here you are"]>>]>>

\* C16: a user turn that starts with a tool result becomes a function turn
\* whose functionResponse is named by the tool_use_id of that result and whose
\* response is the value the text payload denotes.
C16_ToolResultToFunctionResponse ==
  Translated /\ Len(request.contents) = Len(KeptTurns) =>
    \A i \in 1..Len(KeptTurns) :
      LET t == KeptTurns[i] IN
      StartsWithToolResult(t) =>
        /\ PayloadOf(t.content.items[1]) \in ValidPayloads
        /\ request.contents[i] =
             [role |-> "function",
              parts |-> <<[functionResponse |->
                             [name |-> [js |-> "string", s |-> t.content.items[1].tool_use_id],
                              response |-> PayloadValue(PayloadOf(t.content.items[1]))]]>>]

\* C16 witness: the result "[1,2]" of the call toolu_01 was translated.
C16_Witness ==
  /\ Translated
  /\ Len(messages) = 1 /\ StartsWithToolResult(messages[1])
  /\ Len(messages[1].content.items) = 1
  /\ request.contents[1].parts[1].functionResponse.name.s = "toolu_01"
  /\ request.contents[1].parts[1].functionResponse.response.js = "array"
  /\ Len(request.contents[1].parts[1].functionResponse.response.items) = 2

\* C17: every tool result of a user turn, with its identifier and its
\* payload, is in the translated turn.
C17_AllToolResultsKept ==
  Translated /\ Len(request.contents) = Len(KeptTurns) =>
    \A i \in 1..Len(KeptTurns) :
      LET results == ToolResultsOf(KeptTurns[i])
          responses == ResponsesOf(request.contents[i])
      IN \A n \in 1..Len(results) :
           \E m \in 1..Len(responses) :
             /\ responses[m].functionResponse.name = S(results[n].tool_use_id)
             /\ PayloadOf(results[n]) \in ValidPayloads =>
                  responses[m].functionResponse.response = PayloadValue(PayloadOf(results[n]))

\* Some tool result or tool turn of the history has a string payload that is
\* not a JSON document.
HasInvalidPayload ==
  \E i \in 1..Len(messages) :
    \/ \E n \in 1..Len(ToolResultsOf(messages[i])) :
         ~(PayloadOf(ToolResultsOf(messages[i])[n]) \in ValidPayloads)
    \/ /\ messages[i].role = "tool"
       /\ messages[i].content.js = "string"
       /\ ~(messages[i].content.s \in ValidPayloads)

\* C18: with a payload that is not a JSON document anywhere in the history the
\* call fails with the parse error, the provider is never called, no callback
\* runs and the translation is not done again.
C18_ParseFailure ==
  HasInvalidPayload =>
    /\ providerCalls = 0
    /\ events = <<>>
    /\ request = Undefined
    /\ pc \in {"idle", "failed"}
    /\ pc = "failed" => failure = JsonSyntaxError /\ ~ENABLED Start

\* C19: a tool turn becomes a function turn with one functionResponse: the
\* value a string payload denotes, or the object payload as it is.
C19_ToolTurnToFunctionResponse ==
  Translated /\ Len(request.contents) = Len(KeptTurns) =>
    \A i \in 1..Len(KeptTurns) :
      LET t == KeptTurns[i] IN
      t.role = "tool" =>
        /\ request.contents[i].role = "function"
        /\ Len(request.contents[i].parts) = 1
        /\ DOMAIN request.contents[i].parts[1] = {"functionResponse"}
        /\ request.contents[i].parts[1].functionResponse.name = S(t.name)
        /\ t.content.js = "string" =>
             /\ t.content.s \in ValidPayloads
             /\ request.contents[i].parts[1].functionResponse.response = PayloadValue(t.content.s)
        /\ t.content.js # "string" =>
             request.contents[i].parts[1].functionResponse.response = t.content

\* C19 witness: a string payload and an object payload were translated.
C19_Witness ==
  /\ Translated
  /\ Len(messages) = 2
  /\ messages[1].role = "tool" /\ messages[1].content.js = "string"
  /\ messages[2].role = "tool" /\ messages[2].content.js = "object"
  /\ request.contents[1].parts[1].functionResponse.response =
       request.contents[2].parts[1].functionResponse.response
  /\ request.contents[2].parts[1].functionResponse.response = messages[2].content

(***************************************************************************)
(* One streamConversation call per tool list: the declarations range over  *)
(* schemas with additional_properties and format keys at the top level, in  *)
(* a property and in the items of an array.                                 *)
(***************************************************************************)
TypeEntries == {<<>>, <<KV("type", S("string"))>>, <<KV("type", S("number"))>>}
FormatEntries ==
  {<<>>, <<KV("format", S("email"))>>, <<KV("format", S("enum"))>>,
   <<KV("format", S("date-time"))>>}
ExtraEntries ==
  {<<>>,
   <<KV("additional_properties", Bool(FALSE))>>,
   <<KV("additional_properties", Obj(<<KV("type", S("string"))>>))>>}

\* The schema of one parameter.
PropertySchemas ==
  {Obj(t \o f \o a) : t \in TypeEntries, f \in FormatEntries, a \in ExtraEntries}

\* input_schema of a tool: an object with one property, or alternatives in an
\* array next to an array of scalars.
ObjectSchemas ==
  {Obj(<<KV("type", S("object"))>> \o a \o
       <<KV("properties", Obj(<<KV("query", p)>>)), KV("required", Arr(<<S("query")>>))>>) :
     a \in ExtraEntries, p \in PropertySchemas}

ArraySchemas ==
  {Obj(<<KV("anyOf", Arr(<<p, Obj(t \o f \o a)>>))>>) :
     p \in PropertySchemas, t \in TypeEntries \ {<<>>},
     f \in {<<>>, <<KV("format", S("enum"))>>}, a \in ExtraEntries \ {<<>>}}

InputSchemas == ObjectSchemas \cup ArraySchemas

ToolWith(schema) ==
  [name |-> "search", description |-> "Search the catalog", input_schema |-> schema]

\* A declaration that has no input_schema.
BareTool == [name |-> "ping", description |-> "No parameters"]

ToolLists ==
  {<<ToolWith(schema)>> : schema \in InputSchemas}
    \cup {<<BareTool, ToolWith(schema)>> : schema \in ArraySchemas}

InitTools ==
  /\ pc = "idle"
  /\ messages \in {<<UserText("hi")>>, <<UserToolResult("toolu_01", "not json")>>}
  /\ tools \in ToolLists
  /\ streamHandlers = HandlerNames
  /\ request = Undefined
  /\ providerCalls = 0
  /\ providerError = Undefined
  /\ consumed = <<>>
  /\ fullResponseText = ""
  /\ events = <<>>
  /\ pending = 0
  /\ aggregatedResponse = Undefined
  /\ responseCandidate = Undefined
  /\ geminiToolCalls = <<>>
  /\ toolIdx = 0
  /\ finalMessage = Undefined
  /\ returned = Undefined
  /\ failure = Undefined
  /\ consoleErrors = <<>>
  /\ ServiceReady

NextTools == Start

SpecTools == InitTools /\ [][NextTools]_vars

(***************************************************************************)
(* Properties of cleanParameters.                                           *)
(***************************************************************************)
\* The declarations sent to the provider.
Declarations == request.tools.items[1].functionDeclarations

Declared ==
  /\ pc = "awaitCall"
  /\ request # Undefined
  /\ request.tools.js = "array"
  /\ Len(request.tools.items) = 1
  /\ Len(Declarations) = Len(tools)

\* No object of the value, at any depth, has the key additional_properties.
RECURSIVE NoAdditionalProperties(_)
NoAdditionalProperties(v) ==
  IF v.js = "array" THEN \A i \in 1..Len(v.items) : NoAdditionalProperties(v.items[i])
  ELSE IF v.js = "object"
    THEN \A i \in 1..Len(v.kv) :
           v.kv[i].k # "additional_properties" /\ NoAdditionalProperties(v.kv[i].v)
  ELSE TRUE

\* The format entry of an object that the normalization drops.
IsDroppedFormat(obj, e) ==
  /\ e.k = "format"
  /\ \E i \in 1..Len(obj.kv) : obj.kv[i] = [k |-> "type", v |-> S("string")]
  /\ ~(e.v \in {S("enum"), S("date-time")})

\* The entries of an object that are to be found again in its copy.
EntriesToKeep(obj) ==
  SelectSeq(obj.kv, LAMBDA e : e.k # "additional_properties" /\ ~IsDroppedFormat(obj, e))

\* The copy has the container kinds, the other keys in their order and the
\* scalars of the original.
RECURSIVE Preserves(_, _)
Preserves(original, copy) ==
  IF original.js = "array"
    THEN /\ copy.js = "array"
         /\ Len(copy.items) = Len(original.items)
         /\ \A i \in 1..Len(original.items) : Preserves(original.items[i], copy.items[i])
  ELSE IF original.js = "object"
    THEN LET kept == EntriesToKeep(original) IN
         /\ copy.js = "object"
         /\ Len(copy.kv) = Len(kept)
         /\ \A i \in 1..Len(kept) :
              copy.kv[i].k = kept[i].k /\ Preserves(kept[i].v, copy.kv[i].v)
  ELSE copy = original

\* C20: in the declarations sent to the provider no parameters object has the
\* key additional_properties at any depth, inside objects and inside arrays,
\* and every other entry that is not a dropped format entry is there with its
\* container kind and its scalars unchanged.
C20_NoAdditionalProperties ==
  pc = "awaitCall" =>
    /\ Declared
    /\ \A i \in 1..Len(tools) :
         IF "input_schema" \in DOMAIN tools[i]
           THEN /\ DOMAIN Declarations[i] = {"name", "description", "parameters"}
                /\ NoAdditionalProperties(Declarations[i].parameters)
                /\ Preserves(tools[i].input_schema, Declarations[i].parameters)
           ELSE Declarations[i] = tools[i]

\* C20 witness: additional_properties was removed from the items of an array
\* and from the object nested in them, and the rest was kept.
C20_Witness ==
  /\ Declared
  /\ tools =
       <<ToolWith(Obj(<<KV("anyOf",
            Arr(<<Obj(<<KV("type", S("number")), KV("format", S("email")),
                        KV("additional_properties", Obj(<<KV("type", S("string"))>>))>>),
                  Obj(<<KV("type", S("string")),
                        KV("additional_properties", Bool(FALSE))>>)>>))>>))>>
  /\ Declarations[1].parameters =
       Obj(<<KV("anyOf",
            Arr(<<Obj(<<KV("type", S("number")), KV("format", S("email"))>>),
                  Obj(<<KV("type", S("string"))>>)>>))>>)

\* The entry of a key in an object: Undefined when the object has none.
EntryOf(obj, key) == Lookup(obj.kv, key)

HasEntry(obj, key) == \E i \in 1..Len(obj.kv) : obj.kv[i].k = key

\* The format entry of a node is left out of its copy exactly when the node
\* has type string and the format is neither enum nor date-time; the same
\* holds in every node below that the copy has too.
RECURSIVE FormatRule(_, _)
FormatRule(original, copy) ==
  IF original.js = "array" /\ copy.js = "array"
    THEN \A i \in 1..Len(copy.items) :
           i <= Len(original.items) => FormatRule(original.items[i], copy.items[i])
  ELSE IF original.js = "object" /\ copy.js = "object"
    THEN /\ HasEntry(original, "format") =>
              /\ ~HasEntry(copy, "format") <=>
                   /\ EntryOf(original, "type") = S("string")
                   /\ ~(EntryOf(original, "format") \in {S("enum"), S("date-time")})
              /\ HasEntry(copy, "format") =>
                   EntryOf(copy, "format") = EntryOf(original, "format")
         /\ ~HasEntry(original, "format") => ~HasEntry(copy, "format")
         /\ \A i \in 1..Len(copy.kv) :
              (copy.kv[i].k # "format" /\ HasEntry(original, copy.kv[i].k)) =>
                FormatRule(EntryOf(original, copy.kv[i].k), copy.kv[i].v)
  ELSE TRUE

\* C21: a format key is dropped if and only if its node has type string and
\* the format is neither enum nor date-time; a format enum or date-time, and a
\* format of a node of another type, are retained.
C21_FormatRule ==
  Declared =>
    \A i \in 1..Len(tools) :
      "input_schema" \in DOMAIN tools[i] =>
        /\ "parameters" \in DOMAIN Declarations[i]
        /\ FormatRule(tools[i].input_schema, Declarations[i].parameters)

\* C21 witness: of two string nodes the format email was dropped and the
\* format enum was retained.
C21_Witness ==
  /\ Declared
  /\ tools =
       <<ToolWith(Obj(<<KV("anyOf",
            Arr(<<Obj(<<KV("type", S("string")), KV("format", S("email"))>>),
                  Obj(<<KV("type", S("string")), KV("format", S("enum")),
                        KV("additional_properties", Bool(FALSE))>>)>>))>>))>>
  /\ Declarations[1].parameters =
       Obj(<<KV("anyOf",
            Arr(<<Obj(<<KV("type", S("string"))>>),
                  Obj(<<KV("type", S("string")), KV("format", S("enum"))>>)>>))>>)

\* C22: the declarations sent are those given, in their order and number; one
\* that had an input_schema has the cleaned schema under parameters and no
\* input_schema, with its name and description unchanged; the others are as
\* they were.
C22_ToolsTransformed ==
  pc = "awaitCall" /\ request # Undefined =>
    /\ request.tools.js = "array"
    /\ DOMAIN request.tools.items[1] = {"functionDeclarations"}
    /\ Len(Declarations) = Len(tools)
    /\ \A i \in 1..Len(tools) :
         /\ Declarations[i].name = tools[i].name
         /\ Declarations[i].description = tools[i].description
         /\ "input_schema" \in DOMAIN tools[i] =>
              /\ DOMAIN Declarations[i] =
                   (DOMAIN tools[i] \ {"input_schema"}) \cup {"parameters"}
              /\ Declarations[i].parameters.js = tools[i].input_schema.js
              /\ Preserves(tools[i].input_schema, Declarations[i].parameters)
         /\ ~("input_schema" \in DOMAIN tools[i]) => Declarations[i] = tools[i]

\* C22 witness: a declaration without schema and one with a schema were sent
\* in their order.
C22_Witness ==
  /\ Declared
  /\ Len(tools) = 2
  /\ tools[1] = BareTool /\ "input_schema" \in DOMAIN tools[2]
  /\ Declarations[1] = BareTool
  /\ Declarations[2].name = "search"
  /\ DOMAIN Declarations[2] = {"name", "description", "parameters"}
  /\ Declarations[2].parameters # tools[2].input_schema

\* C26: every function call of the terminal response becomes a tool_use block
\* whose id and name are the name of the call and whose input is its args; the
\* blocks onToolUse received and the blocks of the final message are the same
\* sequence; two calls of one tool give two blocks with one id.
C26_ToolUseBlockIdentity ==
  /\ \A i \in 1..Len(EventsOf("onToolUse")) :
       /\ i <= Len(ResponseCalls)
       /\ EventsOf("onToolUse")[i].block =
            [type |-> "tool_use", id |-> ResponseCalls[i].name,
             name |-> ResponseCalls[i].name, input |-> ResponseCalls[i].args]
  /\ finalMessage # Undefined /\ Len(ResponseCalls) > 0 =>
       /\ Len(finalMessage.content.items) = Len(ResponseCalls)
       /\ \A i \in 1..Len(ResponseCalls) :
            /\ finalMessage.content.items[i].type = "tool_use"
            /\ finalMessage.content.items[i].id = ResponseCalls[i].name
            /\ finalMessage.content.items[i].name = ResponseCalls[i].name
            /\ finalMessage.content.items[i].input = ResponseCalls[i].args
       /\ Supplied("onToolUse") =>
            Blocks(EventsOf("onToolUse")) = finalMessage.content.items
       /\ \A i \in 1..Len(ResponseCalls) : \A j \in 1..Len(ResponseCalls) :
            ResponseCalls[i].name = ResponseCalls[j].name =>
              finalMessage.content.items[i].id = finalMessage.content.items[j].id

\* C26 witness: search was called twice in one response; onToolUse and the
\* returned message hold two blocks with the id search.
C26_Witness ==
  /\ pc = "done"
  /\ CallNames(ResponseCalls) = <<"search", "search">>
  /\ Len(EventsOf("onToolUse")) = 2
  /\ Blocks(EventsOf("onToolUse")) = returned.content.items
  /\ returned.content.items[1].id = "search"
  /\ returned.content.items[2].id = "search"

\* C28: the stop reason of the final message depends on the finish reason of
\* the provider alone: it is tool_use exactly when the provider reported
\* TOOL_USE, so function calls with the finish reason STOP give a message of
\* tool_use blocks with the stop reason end_turn.
C28_StopReasonFromFinishReason ==
  finalMessage # Undefined =>
    /\ finalMessage.stop_reason = "tool_use" <=> ProviderFinish = "TOOL_USE"
    /\ finalMessage.stop_reason = "max_tokens" <=> ProviderFinish = "MAX_TOKENS"
    /\ Len(ResponseCalls) > 0 /\ ProviderFinish = "STOP" =>
         /\ BlockTypes(finalMessage) = {"tool_use"}
         /\ finalMessage.stop_reason = "end_turn"
    /\ Len(ResponseCalls) = 0 /\ ProviderFinish = "TOOL_USE" =>
         /\ BlockTypes(finalMessage) = {"text"}
         /\ finalMessage.stop_reason = "tool_use"

\* C28 witness: a completed call returned tool_use blocks with end_turn.
C28_Witness ==
  /\ pc = "done"
  /\ ProviderFinish = "STOP"
  /\ CallNames(ResponseCalls) = <<"search", "cart">>
  /\ BlockTypes(returned) = {"tool_use"}
  /\ returned.stop_reason = "end_turn"

DefaultedArgument(argument, fallback) ==
  IF argument = Undefined THEN fallback ELSE argument

MissingKeyError == Err("createGeminiService", "Error", <<"GEMINI_API_KEY", "is", "not", "set.">>)

\* A test that lets every key through.
KeyIsAbsentNever(apiKey) == FALSE

\* Line 117: !apiKey.
KeyIsAbsent(apiKey) == ~Truthy(apiKey)

\* Lines 116-118 and the return of the service object.
CreateGeminiService ==
  /\ geminiService.state = "unbuilt"
  /\ LET apiKey == DefaultedArgument(geminiService.argument, processEnv["GEMINI_API_KEY"]) IN
       IF KeyIsAbsent(apiKey)
         THEN geminiService' = [geminiService EXCEPT !.state = "failed",
                                                     !.error = MissingKeyError]
         ELSE geminiService' = ServiceCreated(geminiService.argument, apiKey,
                                              geminiService.clients + 1)
  /\ UNCHANGED <<callState, processEnv, envConfig, health>>

\* The arguments createGeminiService is called with and the values of
\* GEMINI_API_KEY in the environment.
KeyArguments == {Undefined, Null, S(""), S("key")}
KeysInEnv == {Undefined, S(""), S("env-key")}

InitService ==
  /\ pc = "idle"
  /\ messages = <<UserText("hi")>>
  /\ tools = <<>>
  /\ streamHandlers = HandlerNames
  /\ request = Undefined
  /\ providerCalls = 0
  /\ providerError = Undefined
  /\ consumed = <<>>
  /\ fullResponseText = ""
  /\ events = <<>>
  /\ pending = 0
  /\ aggregatedResponse = Undefined
  /\ responseCandidate = Undefined
  /\ geminiToolCalls = <<>>
  /\ toolIdx = 0
  /\ finalMessage = Undefined
  /\ returned = Undefined
  /\ failure = Undefined
  /\ consoleErrors = <<>>
  /\ \E key \in KeysInEnv : processEnv = [UnsetEnv EXCEPT !["GEMINI_API_KEY"] = key]
  /\ \E argument \in KeyArguments : geminiService = ServiceUnbuilt(argument)
  /\ envConfig = EnvConfigIdle
  /\ health = HealthIdle

NextService == CreateGeminiService \/ Next

SpecService == InitService /\ [][NextService]_vars

\* Neither the argument nor the environment holds a key.
NoKeyAvailable ==
  /\ geminiService.argument \in {Undefined, S("")}
  /\ processEnv["GEMINI_API_KEY"] = Undefined

\* C23: without an API key (argument absent or empty, GEMINI_API_KEY unset)
\* createGeminiService fails, and it fails at construction: no provider client
\* was created, no provider call is ever made and no service object exists.
C23_MissingKeyFailsAtConstruction ==
  /\ NoKeyAvailable =>
       /\ geminiService.state \in {"unbuilt", "failed"}
       /\ geminiService.state = "unbuilt" => ENABLED CreateGeminiService
  /\ geminiService.state = "failed" =>
       /\ geminiService.error = MissingKeyError
       /\ geminiService.clients = 0
       /\ geminiService.apiKey = Undefined
  /\ geminiService.state # "created" =>
       /\ providerCalls = 0
       /\ pc = "idle"
       /\ request = Undefined
       /\ events = <<>>
  /\ geminiService.state = "created" =>
       /\ geminiService.clients = 1
       /\ geminiService.apiKey \in {S("key"), S("env-key")}

\* C23 witness: createGeminiService('') failed with nothing in the environment.
C23_Witness ==
  /\ geminiService.argument = S("")
  /\ processEnv["GEMINI_API_KEY"] = Undefined
  /\ geminiService.state = "failed"
  /\ geminiService.clients = 0
  /\ providerCalls = 0

(***************************************************************************)
(* EnvironmentConfig (environment.server.js 9-92): the constructor run at   *)
(* the import of the module.                                                *)
(***************************************************************************)
REQUIRED_ENV_VARS ==
  [all |-> <<"NODE_ENV", "SHOPIFY_API_KEY", "SHOPIFY_API_SECRET", "SHOPIFY_APP_URL",
             "CLAUDE_API_KEY", "DATABASE_URL", "REDIRECT_URL">>,
   production |-> <<"SESSION_SECRET", "RENDER_SERVICE_NAME">>,
   development |-> <<"HMR_SERVER_PORT">>]

DEFAULT_VALUES ==
  [NODE_ENV |-> "development",
   PORT |-> "3000",
   AI_PROVIDER |-> "claude",
   LOG_LEVEL |-> "info",
   ENABLE_STRUCTURED_LOGGING |-> "true",
   ENABLE_CHAT_ANALYTICS |-> "true",
   ENABLE_PERFORMANCE_MONITORING |-> "false",
   SCOPES |-> "customer_read_customers,customer_read_orders,customer_read_store_credit_account_transactions,customer_read_store_credit_accounts,unauthenticated_read_product_listings"]

\* A test that takes an empty value for a value.
IsUnsetIgnoringEmpty(value) == value = Undefined

\* Lines 61, 69 and 88: !process.env[name].
IsUnset(value) == ~Truthy(value)

\* Line 56: process.env.NODE_ENV || 'development'.
EnvironmentOf(env) ==
  IF Truthy(env["NODE_ENV"]) THEN env["NODE_ENV"].s ELSE "development"

\* Lines 67-68: the list of the environment, when REQUIRED_ENV_VARS has one.
RequiredListOf(name) ==
  IF name \in DOMAIN REQUIRED_ENV_VARS THEN REQUIRED_ENV_VARS[name] ELSE <<>>

\* Lines 60-64 and 68-72: the names pushed to `missing`, in order.
MissingIn(env, names) == SelectSeq(names, LAMBDA name : IsUnset(env[name]))

\* Lines 76-79.
MissingVariablesError(missing, name) ==
  Err("EnvironmentConfig", "Error",
      <<"Missing", "required", "environment", "variables:">> \o missing
        \o <<"Please", "check", "your", ".env", "file", "Environment:", name>>)

\* Lines 55-81: validateEnvironment returns or throws out of the constructor.
ValidateEnvironment ==
  /\ envConfig.pc = "idle"
  /\ LET name == EnvironmentOf(processEnv)
         missing == MissingIn(processEnv, REQUIRED_ENV_VARS.all)
                      \o MissingIn(processEnv, RequiredListOf(name))
     IN IF Len(missing) > 0
          THEN envConfig' = [pc |-> "failed", env |-> name, missing |-> missing,
                             error |-> MissingVariablesError(missing, name)]
          ELSE envConfig' = [pc |-> "validated", env |-> name, missing |-> missing,
                             error |-> Undefined]
  /\ UNCHANGED <<callState, processEnv, geminiService, health>>

\* A constructor that may apply the defaults before it validates.
DefaultsMayRunFirst(at) == at \in {"idle", "validated"}

\* Lines 47-48: setDefaults runs once validateEnvironment has returned.
DefaultsMayRun(at) == at = "validated"

\* Lines 86-92.
SetDefaults ==
  /\ DefaultsMayRun(envConfig.pc)
  /\ processEnv' =
       [name \in EnvNames |->
          IF name \in DOMAIN DEFAULT_VALUES /\ IsUnset(processEnv[name])
            THEN S(DEFAULT_VALUES[name])
            ELSE processEnv[name]]
  /\ envConfig' = [envConfig EXCEPT !.pc = "ready"]
  /\ UNCHANGED <<callState, geminiService, health>>

\* No streamConversation call is under way.
CallNotStarted ==
  /\ pc = "idle"
  /\ messages = <<UserText("hi")>>
  /\ tools = <<>>
  /\ streamHandlers = HandlerNames
  /\ request = Undefined
  /\ providerCalls = 0
  /\ providerError = Undefined
  /\ consumed = <<>>
  /\ fullResponseText = ""
  /\ events = <<>>
  /\ pending = 0
  /\ aggregatedResponse = Undefined
  /\ responseCandidate = Undefined
  /\ geminiToolCalls = <<>>
  /\ toolIdx = 0
  /\ finalMessage = Undefined
  /\ returned = Undefined
  /\ failure = Undefined
  /\ consoleErrors = <<>>

\* The values NODE_ENV is started with.
NodeEnvs ==
  {Undefined, S(""), S("development"), S("production"), S("staging"), S("test"), S("all")}

\* The environments the process is started in: each required variable set or
\* not, one of them possibly empty, two of the variables with a default set
\* or not.
StartEnvironments ==
  {[name \in EnvNames |->
      CASE name = "NODE_ENV" -> nodeEnv
        [] name = "SHOPIFY_API_KEY" -> apiKey
        [] name \in given -> S("set")
        [] name = "PORT" -> port
        [] name = "LOG_LEVEL" -> level
        [] OTHER -> Undefined] :
     nodeEnv \in NodeEnvs,
     apiKey \in {Undefined, S(""), S("set")},
     given \in SUBSET {"SHOPIFY_API_SECRET", "SHOPIFY_APP_URL", "CLAUDE_API_KEY",
                       "DATABASE_URL", "REDIRECT_URL", "SESSION_SECRET",
                       "RENDER_SERVICE_NAME", "HMR_SERVER_PORT"},
     port \in {Undefined, S("8080")},
     level \in {Undefined, S("")}}

InitEnv ==
  /\ CallNotStarted
  /\ processEnv \in StartEnvironments
  /\ geminiService = ServiceUnbuilt(Undefined)
  /\ envConfig = EnvConfigIdle
  /\ health = HealthIdle

NextEnv == ValidateEnvironment \/ SetDefaults

SpecEnv == InitEnv /\ [][NextEnv]_vars

(***************************************************************************)
(* Properties of EnvironmentConfig.                                         *)
(***************************************************************************)
UniversalNames ==
  {"NODE_ENV", "SHOPIFY_API_KEY", "SHOPIFY_API_SECRET", "SHOPIFY_APP_URL", "CLAUDE_API_KEY",
   "DATABASE_URL", "REDIRECT_URL"}

\* The names required for the NODE_ENV the process has.
NamesFor(nodeEnv) ==
  CASE nodeEnv = S("production") -> {"SESSION_SECRET", "RENDER_SERVICE_NAME"}
    [] nodeEnv = S("development") -> {"HMR_SERVER_PORT"}
    [] nodeEnv = S("all") -> UniversalNames
    [] OTHER -> {}

\* The required names that are unset or empty.
MissingRequired ==
  {name \in UniversalNames \cup NamesFor(processEnv["NODE_ENV"]) :
     processEnv[name] \in {Undefined, S("")}}

Mentions(error, name) == \E i \in 1..Len(error.message) : error.message[i] = name

C25_StagingRequirements ==
  /\ envConfig.pc \in {"validated", "ready"}
  /\ processEnv["NODE_ENV"] \in {S("production"), S("staging")}
  => /\ Truthy(processEnv["SESSION_SECRET"])
     /\ Truthy(processEnv["RENDER_SERVICE_NAME"])

\* C29: the defaults are written only after the validation has passed: a step
\* changes process.env only from a validated construction, a failing step
\* leaves process.env as it was, and with NODE_ENV unset the validation fails
\* although NODE_ENV has a default.
C29_ValidateBeforeDefaults ==
  [][/\ processEnv' # processEnv => envConfig.pc = "validated" /\ envConfig'.pc = "ready"
     /\ envConfig'.pc = "failed" => processEnv' = processEnv
     /\ envConfig'.pc = "ready" => envConfig.pc \in {"validated", "ready"}
     /\ (envConfig.pc = "idle" /\ processEnv["NODE_ENV"] = Undefined) =>
          /\ envConfig'.pc = "failed"
          /\ Mentions(envConfig'.error, "NODE_ENV")]_vars

\* C29 witness: with only NODE_ENV unset the construction has failed and no
\* default is in the environment.
C29_Witness ==
  /\ envConfig.pc = "failed"
  /\ envConfig.missing = <<"NODE_ENV">>
  /\ "NODE_ENV" \in DOMAIN DEFAULT_VALUES
  /\ processEnv["NODE_ENV"] = Undefined
  /\ processEnv["PORT"] = Undefined
  /\ processEnv["AI_PROVIDER"] = Undefined

(***************************************************************************)
(* The health loader (routes/health.jsx 11-75) in a process whose           *)
(* EnvironmentConfig was constructed, and the container's probe of it.      *)
(***************************************************************************)
\* logger.server.js 73-78: levels.indexOf(level) <= levels.indexOf(logLevel).
LevelIndex(level) ==
  CASE level = "error" -> 0
    [] level = "warn" -> 1
    [] level = "info" -> 2
    [] level = "debug" -> 3
    [] OTHER -> -1

ShouldLog(logLevel, level) == LevelIndex(level) <= LevelIndex(logLevel)

\* logger.server.js 63: process.env.LOG_LEVEL || 'info', read by getConfig.
LogLevelOf(env) == IF Truthy(env["LOG_LEVEL"]) THEN env["LOG_LEVEL"].s ELSE "info"

\* What logger.debug and logger.error put out.
Logged(env, level, message) ==
  IF ShouldLog(LogLevelOf(env), level) THEN <<[level |-> level, message |-> message]>>
  ELSE <<>>

\* Lines 22-36 and 44-49: json(healthData) has the default status.
HealthyResponse(nodeEnv) ==
  [status |-> 200,
   body |-> [status |-> "healthy", environment |-> nodeEnv, service |-> "harmony-assistant",
             database |-> "connected",
             checks |-> [database |-> TRUE, environment |-> TRUE]]]

\* An answer for the failure that leaves the status out.
UnhealthyResponseWithoutStatus(message) ==
  [status |-> 200,
   body |-> [status |-> "unhealthy", error |-> message,
             checks |-> [database |-> FALSE, environment |-> TRUE]]]

\* Lines 57-73.
UnhealthyResponse(message) ==
  [status |-> 503,
   body |-> [status |-> "unhealthy", error |-> message,
             checks |-> [database |-> FALSE, environment |-> TRUE]]]

\* The errors prisma.$queryRaw rejects with.
ProbeErrors ==
  { Err("prisma", "PrismaClientInitializationError", <<"Can't", "reach", "database", "server">>),
    Err("prisma", "PrismaClientKnownRequestError", <<"Timed", "out">>),
    Err("prisma", "Error", <<>>) }

\* Lines 12-19: the configuration is read and the query is sent.
LoaderStarts ==
  /\ health.pc = "idle"
  /\ envConfig.pc = "ready"
  /\ health' = [health EXCEPT !.pc = "probing", !.probe = "pending",
                              !.nodeEnv = processEnv["NODE_ENV"]]
  /\ UNCHANGED <<callState, processEnv, geminiService, envConfig>>

\* Lines 19-49: the query resolved.
ProbeResolves ==
  /\ health.pc = "probing"
  /\ health' = [health EXCEPT
                  !.pc = "responded",
                  !.probe = "resolved",
                  !.logs = health.logs \o Logged(processEnv, "debug", "Health check passed"),
                  !.response = HealthyResponse(health.nodeEnv)]
  /\ UNCHANGED <<callState, processEnv, geminiService, envConfig>>

\* Lines 51-74: the query rejected and the catch block answers.
ProbeRejects(error) ==
  /\ health.pc = "probing"
  /\ health' = [health EXCEPT
                  !.pc = "responded",
                  !.probe = "rejected",
                  !.logs = health.logs \o Logged(processEnv, "error", "Health check failed"),
                  !.response = UnhealthyResponse(error.message)]
  /\ UNCHANGED <<callState, processEnv, geminiService, envConfig>>

\* Dockerfile 30-31: curl -f exits with an error for a status of 400 or more.
CurlFails(response) == response.status >= 400

\* The environments of a process that serves requests: the required
\* variables set and the defaults applied.
ServingEnvironments ==
  {[name \in EnvNames |->
      CASE name = "NODE_ENV" -> S(nodeEnv)
        [] name = "LOG_LEVEL" -> S(level)
        [] name = "ENABLE_STRUCTURED_LOGGING" -> S(structured)
        [] name \in DOMAIN DEFAULT_VALUES -> S(DEFAULT_VALUES[name])
        [] name = "GEMINI_API_KEY" -> Undefined
        [] OTHER -> S("set")] :
     nodeEnv \in {"development", "production", "staging", "test"},
     level \in {"error", "warn", "info", "debug", "verbose"},
     structured \in {"true", "false"}}

InitHealth ==
  /\ CallNotStarted
  /\ processEnv \in ServingEnvironments
  /\ geminiService = ServiceUnbuilt(Undefined)
  /\ envConfig = [pc |-> "ready", env |-> processEnv["NODE_ENV"].s, missing |-> <<>>,
                  error |-> Undefined]
  /\ health = HealthIdle

NextHealth ==
  \/ LoaderStarts
  \/ ProbeResolves
  \/ \E error \in ProbeErrors : ProbeRejects(error)

SpecHealth == InitHealth /\ [][NextHealth]_vars

====
